---- MODULE Spec2Model ----
(***************************************************************************)
(* Model of the daily IPO monitor: ipo_monitor.py (price parsing, offer     *)
(* sizing, analysis loop, report rendering, the run() driver) and           *)
(* run_scheduler.py (the import of the pipeline and the 09:00 Dubai         *)
(* polling loop).                                                           *)
(*                                                                          *)
(* A Python str is a sequence of Unicode code points.  A Python float       *)
(* is an IEEE binary64 value, computed with round-to-nearest-even on        *)
(* integers of any size.  The result of a call is <<>> (None), <<v>> (the   *)
(* value v) or <<"raise", name>> (the exception that leaves the call).      *)
(***************************************************************************)
EXTENDS Integers, Sequences, FiniteSets, TLC

VARIABLES
    \* parse_price driver
    ppc, price_field, parsed,
    \* run() pipeline
    pc, env, log, date_iso, ipos, ipos_none, idx, stats, qualified, us_ipos,
    body, subject, sent, console, error,
    \* run_scheduler.py
    spc, utc, now, last_run_date, completed, running, invoked

parseVars == <<ppc, price_field, parsed>>
runVars   == <<pc, env, log, date_iso, ipos, ipos_none, idx, stats, qualified,
               us_ipos, body, subject, sent, console, error>>
schedVars == <<spc, utc, now, last_run_date, completed, running, invoked>>
vars      == <<ppc, price_field, parsed,
               pc, env, log, date_iso, ipos, ipos_none, idx, stats, qualified,
               us_ipos, body, subject, sent, console, error,
               spc, utc, now, last_run_date, completed, running, invoked>>

(***************************************************************************)
(* Bounds                                                                   *)
(***************************************************************************)
MaxLen == 4

MaxRecs == 2

MaxDate == 1

MaxDay == 1

MaxStartOffset == 59

MaxOverhead == 1

MaxBackStep == 1

MaxJobSecs == 2

(***************************************************************************)
(* Optional values and exceptions: <<>> is None, <<v>> a value and          *)
(* <<"raise", name>> an exception leaving the function.                     *)
(***************************************************************************)
None == <<>>

Some(v) == <<v>>

Raise(exc) == <<"raise", exc>>

IsRaise(r) == Len(r) = 2

IsValue(r) == Len(r) = 1

Max(a, b) == IF a >= b THEN a ELSE b

(***************************************************************************)
(* Natural numbers of any size: little-endian sequences of 15-bit limbs     *)
(* without high zero limbs (<<>> is 0).                                     *)
(***************************************************************************)
Base == 2^15

MaxOf(S) == CHOOSE i \in S : \A j \in S : j <= i

MinOf(S) == CHOOSE i \in S : \A j \in S : i <= j

BTrim(x) ==
    LET nz == {i \in 1..Len(x) : x[i] # 0}
    IN  IF nz = {} THEN <<>> ELSE SubSeq(x, 1, MaxOf(nz))

RECURSIVE BFromInt(_)
BFromInt(n) == IF n = 0 THEN <<>> ELSE <<n % Base>> \o BFromInt(n \div Base)

BPad(x, n) == x \o [i \in 1..(n - Len(x)) |-> 0]

\* the limbs of x * c + carry and the carry out of the last one, for
\* 0 <= c, carry <= Base; the two halves of x are done one after the other
RECURSIVE BMulAddSeq(_, _, _)
BMulAddSeq(x, c, carry) ==
    IF x = <<>> THEN [q |-> <<>>, r |-> carry]
    ELSE IF Len(x) = 1
         THEN LET t == x[1] * c + carry
              IN  [q |-> <<t % Base>>, r |-> t \div Base]
    ELSE LET h  == Len(x) \div 2
             lo == BMulAddSeq(SubSeq(x, 1, h), c, carry)
             hi == BMulAddSeq(SubSeq(x, h + 1, Len(x)), c, lo.r)
         IN  [q |-> lo.q \o hi.q, r |-> hi.r]

BMulAdd(x, c, a) ==
    LET d == BMulAddSeq(x, c, a) IN BTrim(d.q \o BFromInt(d.r))

\* the limbs of x + y + carry for x and y of one length, and the carry out
RECURSIVE BAddSeq(_, _, _)
BAddSeq(x, y, carry) ==
    IF x = <<>> THEN [q |-> <<>>, r |-> carry]
    ELSE IF Len(x) = 1
         THEN LET t == x[1] + y[1] + carry
              IN  [q |-> <<t % Base>>, r |-> t \div Base]
    ELSE LET h  == Len(x) \div 2
             lo == BAddSeq(SubSeq(x, 1, h), SubSeq(y, 1, h), carry)
             hi == BAddSeq(SubSeq(x, h + 1, Len(x)), SubSeq(y, h + 1, Len(y)), lo.r)
         IN  [q |-> lo.q \o hi.q, r |-> hi.r]

BAdd(x, y) ==
    LET n == Max(Len(x), Len(y))
        d == BAddSeq(BPad(x, n), BPad(y, n), 0)
    IN  BTrim(d.q \o BFromInt(d.r))

\* the limbs of x - y - borrow for x and y of one length, and the borrow out
RECURSIVE BSubSeq(_, _, _)
BSubSeq(x, y, borrow) ==
    IF x = <<>> THEN [q |-> <<>>, r |-> borrow]
    ELSE IF Len(x) = 1
         THEN LET t == x[1] - y[1] - borrow
              IN  [q |-> <<(t + Base) % Base>>, r |-> IF t < 0 THEN 1 ELSE 0]
    ELSE LET h  == Len(x) \div 2
             lo == BSubSeq(SubSeq(x, 1, h), SubSeq(y, 1, h), borrow)
             hi == BSubSeq(SubSeq(x, h + 1, Len(x)), SubSeq(y, h + 1, Len(y)), lo.r)
         IN  [q |-> lo.q \o hi.q, r |-> hi.r]

\* x - y, for x >= y
BSub(x, y) == BTrim(BSubSeq(x, BPad(y, Len(x)), 0).q)

BShiftLimb(x) == IF x = <<>> THEN <<>> ELSE <<0>> \o x

RECURSIVE BMul(_, _)
BMul(x, y) ==
    IF y = <<>> THEN <<>>
    ELSE BAdd(BMulAdd(x, Head(y), 0), BShiftLimb(BMul(x, Tail(y))))

\* the limbs of (rin * Base^Len(x) + x) divided by c and the remainder, for
\* 0 <= rin < c <= Base; the high half of x is done first
RECURSIVE BDivSeq(_, _, _)
BDivSeq(x, c, rin) ==
    IF x = <<>> THEN [q |-> <<>>, r |-> rin]
    ELSE IF Len(x) = 1
         THEN LET t == rin * Base + x[1]
              IN  [q |-> <<t \div c>>, r |-> t % c]
    ELSE LET h  == Len(x) \div 2
             hi == BDivSeq(SubSeq(x, h + 1, Len(x)), c, rin)
             lo == BDivSeq(SubSeq(x, 1, h), c, hi.r)
         IN  IF hi.r < c THEN [q |-> lo.q \o hi.q, r |-> lo.r]
             ELSE [q |-> <<>>, r |-> 0]

\* quotient and remainder of x by c, for 0 < c <= Base
BDiv(x, c) == LET d == BDivSeq(x, c, 0) IN [q |-> BTrim(d.q), r |-> d.r]

\* x * 10^k, by halving k
RECURSIVE BMulPow10(_, _)
BMulPow10(x, k) ==
    IF k = 0 \/ x = <<>> THEN x
    ELSE IF k <= 4 THEN BMulAdd(x, 10^k, 0)
    ELSE BMulPow10(BMulPow10(x, k \div 2), k - k \div 2)

\* x divided by 10^k, and whether the division left a remainder
RECURSIVE BDivPow10(_, _, _)
BDivPow10(x, k, st) ==
    IF k = 0 THEN [q |-> x, sticky |-> st]
    ELSE IF k <= 4
         THEN LET d == BDiv(x, 10^k) IN [q |-> d.q, sticky |-> st \/ d.r # 0]
    ELSE LET a == BDivPow10(x, k \div 2, st)
         IN  IF a.q = <<>> THEN a ELSE BDivPow10(a.q, k - k \div 2, a.sticky)

RECURSIVE BitLenInt(_)
BitLenInt(n) == IF n = 0 THEN 0 ELSE 1 + BitLenInt(n \div 2)

BitLen(x) == IF x = <<>> THEN 0 ELSE 15 * (Len(x) - 1) + BitLenInt(x[Len(x)])

BShl(x, n) ==
    IF x = <<>> THEN <<>>
    ELSE [i \in 1..(n \div 15) |-> 0] \o BMulAdd(x, 2^(n % 15), 0)

\* x shifted right by n bits, and whether a 1 bit was shifted out
BShr(x, n) ==
    LET limbs == n \div 15
        low   == SubSeq(x, 1, IF limbs < Len(x) THEN limbs ELSE Len(x))
        high  == SubSeq(x, limbs + 1, Len(x))
        d     == BDiv(high, 2^(n % 15))
    IN  [q |-> d.q, sticky |-> d.r # 0 \/ \E i \in 1..Len(low) : low[i] # 0]

\* -1, 0 or 1 as x <, =, > y
BCmp(x, y) ==
    LET diff == {i \in 1..Len(x) : i <= Len(y) /\ x[i] # y[i]}
    IN  IF Len(x) # Len(y) THEN (IF Len(x) < Len(y) THEN 0 - 1 ELSE 1)
        ELSE IF diff = {} THEN 0
        ELSE IF x[MaxOf(diff)] < y[MaxOf(diff)] THEN 0 - 1 ELSE 1

BIsOdd(x) == x # <<>> /\ Head(x) % 2 = 1

\* x rounded to the nearest multiple of 2^n, ties to even, divided by 2^n;
\* st says that a fraction below the last bit of x was already dropped
BRoundShr(x, n, st) ==
    IF n = 0 THEN x
    ELSE LET Up(h, rest) ==
                 IF h.r = 1 /\ (rest \/ BIsOdd(h.q)) THEN BMulAdd(h.q, 1, 1) ELSE h.q
             Half(y) == Up(BDiv(y.q, 2), y.sticky \/ st)
         IN  Half(BShr(x, n - 1))

(***************************************************************************)
(* Python float (IEEE binary64).  A finite value is (-1)^neg * man * 2^exp  *)
(* with man odd, or man = 0 and exp = 0; kind is "fin", "inf" or "nan".     *)
(***************************************************************************)
MantBits == 53

MinExp == 0 - 1074

MaxBits == 1024

FInf(neg) == [kind |-> "inf", neg |-> neg, man |-> <<>>, exp |-> 0]

FNaN == [kind |-> "nan", neg |-> FALSE, man |-> <<>>, exp |-> 0]

FZero(neg) == [kind |-> "fin", neg |-> neg, man |-> <<>>, exp |-> 0]

RECURSIVE TrailingZeros(_)
TrailingZeros(n) == IF n % 2 = 1 THEN 0 ELSE 1 + TrailingZeros(n \div 2)

\* (-1)^neg * x * 2^e with the trailing zero bits of x moved into the exponent
FCanon(neg, x, e) ==
    LET low == MinOf({i \in 1..Len(x) : x[i] # 0})
        tz  == 15 * (low - 1) + TrailingZeros(x[low])
    IN  IF x = <<>> THEN FZero(neg)
        ELSE [kind |-> "fin", neg |-> neg, man |-> BShr(x, tz).q, exp |-> e + tz]

\* the binary64 nearest to (x + fraction) * 2^e, ties to even; st says that
\* the fraction is not zero
FRound(neg, x, st, e) ==
    LET Pack(q, sh) ==
            IF BitLen(q) + e + sh > MaxBits THEN FInf(neg)
            ELSE FCanon(neg, q, e + sh)
        Shifted(sh) == Pack(BRoundShr(x, sh, st), sh)
    IN  Shifted(Max(0, Max(BitLen(x) - MantBits, MinExp - e)))

FFromInt(n) == FRound(FALSE, BFromInt(n), FALSE, 0)

FMul(a, b) ==
    LET neg == a.neg # b.neg
    IN  IF a.kind = "nan" \/ b.kind = "nan" THEN FNaN
        ELSE IF a.kind = "inf" \/ b.kind = "inf"
             THEN IF (a.kind = "fin" /\ a.man = <<>>) \/ (b.kind = "fin" /\ b.man = <<>>)
                  THEN FNaN
                  ELSE FInf(neg)
        ELSE FRound(neg, BMul(a.man, b.man), FALSE, a.exp + b.exp)

\* a <= 0
FLeZero(a) ==
    /\ a.kind # "nan"
    /\ a.neg \/ (a.kind = "fin" /\ a.man = <<>>)

\* a >= n, for an int n > 0
FGeInt(a, n) ==
    IF a.kind = "nan" \/ a.neg THEN FALSE
    ELSE IF a.kind = "inf" THEN TRUE
    ELSE IF a.man = <<>> THEN FALSE
    ELSE LET la == BitLen(a.man) + a.exp
             ln == BitLenInt(n)
         IN  IF la # ln THEN la > ln
             ELSE IF a.exp >= 0 THEN BCmp(BShl(a.man, a.exp), BFromInt(n)) >= 0
             ELSE BCmp(a.man, BShl(BFromInt(n), 0 - a.exp)) >= 0

(***************************************************************************)
(* Python str: a sequence of Unicode code points.  Ord gives the code point *)
(* of a printable ASCII character (the grave accent left out) and of \t \n  *)
(* \f \r, Text the str written with such characters.                        *)
(***************************************************************************)
AsciiChars ==
    <<
      " ", "!", "\"", "#", "$", "%", "&", "'", "(", ")", "*", "+", ",", "-",
      ".", "/", "0", "1", "2", "3", "4", "5", "6", "7", "8", "9", ":", ";",
      "<", "=", ">", "?", "@", "A", "B", "C", "D", "E", "F", "G", "H", "I",
      "J", "K", "L", "M", "N", "O", "P", "Q", "R", "S", "T", "U", "V", "W",
      "X", "Y", "Z", "[", "\\", "]", "^", "_", "a", "b", "c", "d", "e",
      "f", "g", "h", "i", "j", "k", "l", "m", "n", "o", "p", "q", "r", "s",
      "t", "u", "v", "w", "x", "y", "z", "{", "|", "}", "~" >>

Ord ==
    [c \in {AsciiChars[i] : i \in 1..Len(AsciiChars)} \cup {"\t", "\n", "\f", "\r"} |->
        IF c = "\t" THEN 9
        ELSE IF c = "\n" THEN 10
        ELSE IF c = "\f" THEN 12
        ELSE IF c = "\r" THEN 13
        ELSE IF \E i \in 1..64 : AsciiChars[i] = c
             THEN 31 + CHOOSE i \in 1..64 : AsciiChars[i] = c
        ELSE 32 + CHOOSE i \in 65..Len(AsciiChars) : AsciiChars[i] = c]

Text(lit) == [i \in 1..Len(lit) |-> Ord[lit[i]]]

(***************************************************************************)
(* str methods                                                              *)
(***************************************************************************)
\* the characters str.isspace() accepts and str.strip() removes: \t \n \x0b
\* \f \r, \x1c-\x1f, the blank, and the blanks beyond ASCII
Whitespace ==
    (9..13) \cup (28..32) \cup {133, 160, 5760} \cup (8192..8202) \cup
    {8232, 8233, 8239, 8287, 12288}

RECURSIVE LStripIn(_, _)
LStripIn(s, W) == IF s # <<>> /\ Head(s) \in W THEN LStripIn(Tail(s), W) ELSE s

RECURSIVE RStripIn(_, _)
RStripIn(s, W) ==
    IF s # <<>> /\ s[Len(s)] \in W
    THEN RStripIn(SubSeq(s, 1, Len(s) - 1), W) ELSE s

LStrip(s) == LStripIn(s, Whitespace)

RStrip(s) == RStripIn(s, Whitespace)

Strip(s) == RStrip(LStrip(s))

Remove(s, c) == SelectSeq(s, LAMBDA x : x # c)

Contains(s, c) == \E i \in 1..Len(s) : s[i] = c

\* s.split(c): the segments between the occurrences of c, empty ones included
RECURSIVE Split(_, _)
Split(s, c) ==
    IF ~Contains(s, c) THEN <<s>>
    ELSE LET i == CHOOSE j \in 1..Len(s) :
                      s[j] = c /\ \A h \in 1..(j - 1) : s[h] # c
         IN  <<SubSeq(s, 1, i - 1)>> \o Split(SubSeq(s, i + 1, Len(s)), c)

\* str.upper() of one character beyond ASCII, where it is one other
\* character: the characters first, first + step, ..., last become
\* themselves + delta (<<first, last, step, delta>>)
UpperRuns ==
    {
      <<181, 181, 1, 743>>, <<224, 246, 1, -32>>,
      <<248, 254, 1, -32>>, <<255, 255, 1, 121>>, <<257, 303, 2, -1>>,
      <<305, 305, 1, -232>>, <<307, 311, 2, -1>>, <<314, 328, 2, -1>>,
      <<331, 375, 2, -1>>, <<378, 382, 2, -1>>, <<383, 383, 1, -300>>,
      <<384, 384, 1, 195>>, <<387, 389, 2, -1>>, <<392, 392, 1, -1>>,
      <<396, 396, 1, -1>>, <<402, 402, 1, -1>>, <<405, 405, 1, 97>>,
      <<409, 409, 1, -1>>, <<410, 410, 1, 163>>, <<414, 414, 1, 130>>,
      <<417, 421, 2, -1>>, <<424, 424, 1, -1>>, <<429, 429, 1, -1>>,
      <<432, 432, 1, -1>>, <<436, 438, 2, -1>>, <<441, 441, 1, -1>>,
      <<445, 445, 1, -1>>, <<447, 447, 1, 56>>, <<453, 453, 1, -1>>,
      <<454, 454, 1, -2>>, <<456, 456, 1, -1>>, <<457, 457, 1, -2>>,
      <<459, 459, 1, -1>>, <<460, 460, 1, -2>>, <<462, 476, 2, -1>>,
      <<477, 477, 1, -79>>, <<479, 495, 2, -1>>, <<498, 498, 1, -1>>,
      <<499, 499, 1, -2>>, <<501, 501, 1, -1>>, <<505, 543, 2, -1>>,
      <<547, 563, 2, -1>>, <<572, 572, 1, -1>>, <<575, 576, 1, 10815>>,
      <<578, 578, 1, -1>>, <<583, 591, 2, -1>>, <<592, 592, 1, 10783>>,
      <<593, 593, 1, 10780>>, <<594, 594, 1, 10782>>, <<595, 595, 1, -210>>,
      <<596, 596, 1, -206>>, <<598, 599, 1, -205>>, <<601, 601, 1, -202>>,
      <<603, 603, 1, -203>>, <<604, 604, 1, 42319>>, <<608, 608, 1, -205>>,
      <<609, 609, 1, 42315>>, <<611, 611, 1, -207>>, <<613, 613, 1, 42280>>,
      <<614, 614, 1, 42308>>, <<616, 616, 1, -209>>, <<617, 617, 1, -211>>,
      <<618, 618, 1, 42308>>, <<619, 619, 1, 10743>>, <<620, 620, 1, 42305>>,
      <<623, 623, 1, -211>>, <<625, 625, 1, 10749>>, <<626, 626, 1, -213>>,
      <<629, 629, 1, -214>>, <<637, 637, 1, 10727>>, <<640, 640, 1, -218>>,
      <<642, 642, 1, 42307>>, <<643, 643, 1, -218>>, <<647, 647, 1, 42282>>,
      <<648, 648, 1, -218>>, <<649, 649, 1, -69>>, <<650, 651, 1, -217>>,
      <<652, 652, 1, -71>>, <<658, 658, 1, -219>>, <<669, 669, 1, 42261>>,
      <<670, 670, 1, 42258>>, <<837, 837, 1, 84>>, <<881, 883, 2, -1>>,
      <<887, 887, 1, -1>>, <<891, 893, 1, 130>>, <<940, 940, 1, -38>>,
      <<941, 943, 1, -37>>, <<945, 961, 1, -32>>, <<962, 962, 1, -31>>,
      <<963, 971, 1, -32>>, <<972, 972, 1, -64>>, <<973, 974, 1, -63>>,
      <<976, 976, 1, -62>>, <<977, 977, 1, -57>>, <<981, 981, 1, -47>>,
      <<982, 982, 1, -54>>, <<983, 983, 1, -8>>, <<985, 1007, 2, -1>>,
      <<1008, 1008, 1, -86>>, <<1009, 1009, 1, -80>>, <<1010, 1010, 1, 7>>,
      <<1011, 1011, 1, -116>>, <<1013, 1013, 1, -96>>, <<1016, 1016, 1, -1>>,
      <<1019, 1019, 1, -1>>, <<1072, 1103, 1, -32>>, <<1104, 1119, 1, -80>>,
      <<1121, 1153, 2, -1>>, <<1163, 1215, 2, -1>>, <<1218, 1230, 2, -1>>,
      <<1231, 1231, 1, -15>>, <<1233, 1327, 2, -1>>, <<1377, 1414, 1, -48>>,
      <<4304, 4346, 1, 3008>>, <<4349, 4351, 1, 3008>>,
      <<5112, 5117, 1, -8>>, <<7296, 7296, 1, -6254>>,
      <<7297, 7297, 1, -6253>>, <<7298, 7298, 1, -6244>>,
      <<7299, 7300, 1, -6242>>, <<7301, 7301, 1, -6243>>,
      <<7302, 7302, 1, -6236>>, <<7303, 7303, 1, -6181>>,
      <<7304, 7304, 1, 35266>>, <<7545, 7545, 1, 35332>>,
      <<7549, 7549, 1, 3814>>, <<7566, 7566, 1, 35384>>,
      <<7681, 7829, 2, -1>>, <<7835, 7835, 1, -59>>, <<7841, 7935, 2, -1>>,
      <<7936, 7943, 1, 8>>, <<7952, 7957, 1, 8>>, <<7968, 7975, 1, 8>>,
      <<7984, 7991, 1, 8>>, <<8000, 8005, 1, 8>>, <<8017, 8023, 2, 8>>,
      <<8032, 8039, 1, 8>>, <<8048, 8049, 1, 74>>, <<8050, 8053, 1, 86>>,
      <<8054, 8055, 1, 100>>, <<8056, 8057, 1, 128>>, <<8058, 8059, 1, 112>>,
      <<8060, 8061, 1, 126>>, <<8112, 8113, 1, 8>>, <<8126, 8126, 1, -7205>>,
      <<8144, 8145, 1, 8>>, <<8160, 8161, 1, 8>>, <<8165, 8165, 1, 7>>,
      <<8526, 8526, 1, -28>>, <<8560, 8575, 1, -16>>, <<8580, 8580, 1, -1>>,
      <<9424, 9449, 1, -26>>, <<11312, 11359, 1, -48>>,
      <<11361, 11361, 1, -1>>, <<11365, 11365, 1, -10795>>,
      <<11366, 11366, 1, -10792>>, <<11368, 11372, 2, -1>>,
      <<11379, 11379, 1, -1>>, <<11382, 11382, 1, -1>>,
      <<11393, 11491, 2, -1>>, <<11500, 11502, 2, -1>>,
      <<11507, 11507, 1, -1>>, <<11520, 11557, 1, -7264>>,
      <<11559, 11559, 1, -7264>>, <<11565, 11565, 1, -7264>>,
      <<42561, 42605, 2, -1>>, <<42625, 42651, 2, -1>>,
      <<42787, 42799, 2, -1>>, <<42803, 42863, 2, -1>>,
      <<42874, 42876, 2, -1>>, <<42879, 42887, 2, -1>>,
      <<42892, 42892, 1, -1>>, <<42897, 42899, 2, -1>>,
      <<42900, 42900, 1, 48>>, <<42903, 42921, 2, -1>>,
      <<42933, 42947, 2, -1>>, <<42952, 42954, 2, -1>>,
      <<42961, 42961, 1, -1>>, <<42967, 42969, 2, -1>>,
      <<42998, 42998, 1, -1>>, <<43859, 43859, 1, -928>>,
      <<43888, 43967, 1, -38864>>, <<65345, 65370, 1, -32>>,
      <<66600, 66639, 1, -40>>, <<66776, 66811, 1, -40>>,
      <<66967, 67003, 2, -39>>, <<66968, 66976, 2, -39>>,
      <<66980, 66992, 2, -39>>, <<66996, 67000, 2, -39>>,
      <<67004, 67004, 1, -39>>, <<68800, 68850, 1, -64>>,
      <<71872, 71903, 1, -32>>, <<93792, 93823, 1, -32>>,
      <<125218, 125251, 1, -34>> }

\* str.upper() of one character, where it is several characters
UpperSpecial ==
    {
      <<223, <<83, 83>>>>, <<329, <<700, 78>>>>, <<496, <<74, 780>>>>,
      <<912, <<921, 776, 769>>>>, <<944, <<933, 776, 769>>>>,
      <<1415, <<1333, 1362>>>>, <<7830, <<72, 817>>>>, <<7831, <<84, 776>>>>,
      <<7832, <<87, 778>>>>, <<7833, <<89, 778>>>>, <<7834, <<65, 702>>>>,
      <<8016, <<933, 787>>>>, <<8018, <<933, 787, 768>>>>,
      <<8020, <<933, 787, 769>>>>, <<8022, <<933, 787, 834>>>>,
      <<8064, <<7944, 921>>>>, <<8065, <<7945, 921>>>>,
      <<8066, <<7946, 921>>>>, <<8067, <<7947, 921>>>>,
      <<8068, <<7948, 921>>>>, <<8069, <<7949, 921>>>>,
      <<8070, <<7950, 921>>>>, <<8071, <<7951, 921>>>>,
      <<8072, <<7944, 921>>>>, <<8073, <<7945, 921>>>>,
      <<8074, <<7946, 921>>>>, <<8075, <<7947, 921>>>>,
      <<8076, <<7948, 921>>>>, <<8077, <<7949, 921>>>>,
      <<8078, <<7950, 921>>>>, <<8079, <<7951, 921>>>>,
      <<8080, <<7976, 921>>>>, <<8081, <<7977, 921>>>>,
      <<8082, <<7978, 921>>>>, <<8083, <<7979, 921>>>>,
      <<8084, <<7980, 921>>>>, <<8085, <<7981, 921>>>>,
      <<8086, <<7982, 921>>>>, <<8087, <<7983, 921>>>>,
      <<8088, <<7976, 921>>>>, <<8089, <<7977, 921>>>>,
      <<8090, <<7978, 921>>>>, <<8091, <<7979, 921>>>>,
      <<8092, <<7980, 921>>>>, <<8093, <<7981, 921>>>>,
      <<8094, <<7982, 921>>>>, <<8095, <<7983, 921>>>>,
      <<8096, <<8040, 921>>>>, <<8097, <<8041, 921>>>>,
      <<8098, <<8042, 921>>>>, <<8099, <<8043, 921>>>>,
      <<8100, <<8044, 921>>>>, <<8101, <<8045, 921>>>>,
      <<8102, <<8046, 921>>>>, <<8103, <<8047, 921>>>>,
      <<8104, <<8040, 921>>>>, <<8105, <<8041, 921>>>>,
      <<8106, <<8042, 921>>>>, <<8107, <<8043, 921>>>>,
      <<8108, <<8044, 921>>>>, <<8109, <<8045, 921>>>>,
      <<8110, <<8046, 921>>>>, <<8111, <<8047, 921>>>>,
      <<8114, <<8122, 921>>>>, <<8115, <<913, 921>>>>,
      <<8116, <<902, 921>>>>, <<8118, <<913, 834>>>>,
      <<8119, <<913, 834, 921>>>>, <<8124, <<913, 921>>>>,
      <<8130, <<8138, 921>>>>, <<8131, <<919, 921>>>>,
      <<8132, <<905, 921>>>>, <<8134, <<919, 834>>>>,
      <<8135, <<919, 834, 921>>>>, <<8140, <<919, 921>>>>,
      <<8146, <<921, 776, 768>>>>, <<8147, <<921, 776, 769>>>>,
      <<8150, <<921, 834>>>>, <<8151, <<921, 776, 834>>>>,
      <<8162, <<933, 776, 768>>>>, <<8163, <<933, 776, 769>>>>,
      <<8164, <<929, 787>>>>, <<8166, <<933, 834>>>>,
      <<8167, <<933, 776, 834>>>>, <<8178, <<8186, 921>>>>,
      <<8179, <<937, 921>>>>, <<8180, <<911, 921>>>>, <<8182, <<937, 834>>>>,
      <<8183, <<937, 834, 921>>>>, <<8188, <<937, 921>>>>,
      <<64256, <<70, 70>>>>, <<64257, <<70, 73>>>>, <<64258, <<70, 76>>>>,
      <<64259, <<70, 70, 73>>>>, <<64260, <<70, 70, 76>>>>,
      <<64261, <<83, 84>>>>, <<64262, <<83, 84>>>>,
      <<64275, <<1348, 1350>>>>, <<64276, <<1348, 1333>>>>,
      <<64277, <<1348, 1339>>>>, <<64278, <<1358, 1350>>>>,
      <<64279, <<1348, 1341>>>> }

\* c.upper(), a str of one to three characters; in ASCII a-z become A-Z
UpperChar(c) ==
    IF c < 128 THEN <<IF c \in 97..122 THEN c - 32 ELSE c>>
    ELSE IF \E m \in UpperSpecial : m[1] = c
    THEN (CHOOSE m \in UpperSpecial : m[1] = c)[2]
    ELSE IF \E r \in UpperRuns : c \in r[1]..r[2] /\ (c - r[1]) % r[3] = 0
         THEN <<c + (CHOOSE r \in UpperRuns :
                         c \in r[1]..r[2] /\ (c - r[1]) % r[3] = 0)[4]>>
    ELSE <<c>>

RECURSIVE Upper(_)
Upper(s) == IF s = <<>> THEN <<>> ELSE UpperChar(Head(s)) \o Upper(Tail(s))

(***************************************************************************)
(* float(str).  float() reads every Unicode decimal digit as its value and  *)
(* every blank of str.isspace() beyond ASCII as a blank; in ASCII it skips  *)
(* \t \n \x0b \f \r and the blank around the numeral, not \x1c-\x1f.       *)
(***************************************************************************)
\* the digit zero of every run 0..9 of Unicode decimal digits beyond ASCII
DecimalZeros ==
    {
      1632, 1776, 1984, 2406, 2534, 2662, 2790, 2918, 3046, 3174, 3302,
      3430, 3558, 3664, 3792, 3872, 4160, 4240, 6112, 6160, 6470, 6608, 6784,
      6800, 6992, 7088, 7232, 7248, 42528, 43216, 43264, 43472, 43504, 43600,
      44016, 65296, 66720, 68912, 69734, 69872, 69942, 70096, 70384, 70736,
      70864, 71248, 71360, 71472, 71904, 72016, 72784, 73040, 73120, 92768,
      92864, 93008, 120782, 120792, 120802, 120812, 120822, 123200, 123632,
      125264, 130032 }

IsDigit(c) == c \in 48..57 \/ \E z \in DecimalZeros : c \in z..(z + 9)

DigitVal(c) ==
    IF c \in 48..57 THEN c - 48
    ELSE c - (CHOOSE z \in DecimalZeros : c \in z..(z + 9))

\* the blanks float() skips around the numeral
FloatStrip(s) ==
    RStripIn(LStripIn(s, Whitespace \ (28..31)), Whitespace \ (28..31))

\* inf and nan are compared without regard to the case of ASCII letters
AsciiLower(s) == [i \in 1..Len(s) |-> IF s[i] \in 65..90 THEN s[i] + 32 ELSE s[i]]

RECURSIVE StripZeros(_)
StripZeros(s) ==
    IF s # <<>> /\ IsDigit(Head(s)) /\ DigitVal(Head(s)) = 0
    THEN StripZeros(Tail(s)) ELSE s

RECURSIVE DigitsVal(_)
DigitsVal(s) ==
    IF s = <<>> THEN 0
    ELSE 10 * DigitsVal(SubSeq(s, 1, Len(s) - 1)) + DigitVal(s[Len(s)])

RECURSIVE BFromDigits(_)
BFromDigits(s) ==
    IF Len(s) <= 4 THEN BFromInt(DigitsVal(s))
    ELSE LET h    == Len(s) \div 2
             high == BFromDigits(SubSeq(s, 1, h))
             low  == BFromDigits(SubSeq(s, h + 1, Len(s)))
         IN  BAdd(BMulPow10(high, Len(s) - h), low)

\* the exponent is read exactly; one of more than 9 significant digits
\* counts as 1100000000, far beyond the range of a float
ExpVal(ds) ==
    IF Len(StripZeros(ds)) > 9 THEN 1100000000 ELSE DigitsVal(StripZeros(ds))

\* the binary64 nearest to (digits ds) * 10^e10
FFromDecimal(neg, ds, e10) ==
    LET k == IF e10 < 0 THEN 0 - e10 ELSE 0
        Quotient(d, s) == FRound(neg, d.q, d.sticky, 0 - s)
        Scaled(m, s) == Quotient(BDivPow10(BShl(m, s), k, FALSE), s)
        Value(m) ==
            IF e10 >= 0 THEN FRound(neg, BMulPow10(m, e10), FALSE, 0)
            ELSE Scaled(m, Max(0, 56 + 4 * k - BitLen(m)))
        Significant(sig) ==
            IF sig = <<>> THEN FZero(neg)
            ELSE IF Len(sig) + e10 > 310 THEN FInf(neg)
            ELSE IF Len(sig) + e10 < 0 - 330 THEN FZero(neg)
            ELSE Value(BFromDigits(sig))
    IN  Significant(StripZeros(ds))

\* an underscore is allowed between two digits only
UnderscoresOk(t) ==
    \A i \in 1..Len(t) :
        t[i] = Ord["_"] => i > 1 /\ i < Len(t) /\ IsDigit(t[i - 1]) /\ IsDigit(t[i + 1])

\* digits [. digits] or . digits
MantissaOk(b) ==
    /\ \A i \in 1..Len(b) : IsDigit(b[i]) \/ b[i] = Ord["."]
    /\ Cardinality({i \in 1..Len(b) : b[i] = Ord["."]}) <= 1
    /\ \E i \in 1..Len(b) : IsDigit(b[i])

HasSign(u) == u # <<>> /\ Head(u) \in {Ord["-"], Ord["+"]}

\* [sign] digits
ExponentOk(x) ==
    IF HasSign(x) THEN Len(x) > 1 /\ \A i \in 2..Len(x) : IsDigit(x[i])
    ELSE x # <<>> /\ \A i \in 1..Len(x) : IsDigit(x[i])

ExponentVal(x) ==
    IF Head(x) = Ord["-"] THEN 0 - ExpVal(Tail(x))
    ELSE IF Head(x) = Ord["+"] THEN ExpVal(Tail(x))
    ELSE ExpVal(x)

\* the position of the first e or E of b, or 0
ExpPos(b) ==
    IF \E i \in 1..Len(b) : b[i] \in {Ord["e"], Ord["E"]}
    THEN CHOOSE i \in 1..Len(b) :
             /\ b[i] \in {Ord["e"], Ord["E"]}
             /\ \A h \in 1..(i - 1) : b[h] \notin {Ord["e"], Ord["E"]}
    ELSE 0

\* the number of digits after the point of a mantissa
FracLen(mant) ==
    IF Contains(mant, Ord["."])
    THEN Len(mant) - (CHOOSE i \in 1..Len(mant) : mant[i] = Ord["."])
    ELSE 0

\* mantissa [e exponent]
ParseDecimal(neg, mant, expo, epos) ==
    IF ~MantissaOk(mant) \/ (epos # 0 /\ ~ExponentOk(expo)) THEN None
    ELSE Some(FFromDecimal(neg, Remove(mant, Ord["."]),
                           (IF epos = 0 THEN 0 ELSE ExponentVal(expo)) - FracLen(mant)))

ParseParts(neg, b, epos) ==
    ParseDecimal(neg,
                 IF epos = 0 THEN b ELSE SubSeq(b, 1, epos - 1),
                 IF epos = 0 THEN <<>> ELSE SubSeq(b, epos + 1, Len(b)),
                 epos)

\* inf, infinity and nan in any case, or a decimal
ParseUnsigned(neg, b) ==
    IF AsciiLower(b) \in {Text(<<"i","n","f">>), Text(<<"i","n","f","i","n","i","t","y">>)}
    THEN Some(FInf(neg))
    ELSE IF AsciiLower(b) = Text(<<"n","a","n">>) THEN Some(FNaN)
    ELSE ParseParts(neg, b, ExpPos(b))

ParseSigned(u) ==
    ParseUnsigned(HasSign(u) /\ Head(u) = Ord["-"], IF HasSign(u) THEN Tail(u) ELSE u)

\* float(s): None stands for ValueError
ParseFloat(s) ==
    IF ~UnderscoresOk(FloatStrip(s)) THEN None
    ELSE ParseSigned(Remove(FloatStrip(s), Ord["_"]))

(***************************************************************************)
(* format(x, ",.0f")                                                        *)
(***************************************************************************)
RECURSIVE NatToStr(_)
NatToStr(n) ==
    IF n < 10 THEN <<48 + n>>
    ELSE NatToStr(n \div 10) \o <<48 + (n % 10)>>

Pad3(n) ==
    (IF n < 10 THEN Text(<<"0", "0">>) ELSE IF n < 100 THEN Text(<<"0">>) ELSE <<>>) \o NatToStr(n)

\* x < 1000^n as n groups of three decimal digits, the highest first
RECURSIVE BGroups(_, _)
BGroups(x, n) ==
    IF n = 1 THEN <<IF x = <<>> THEN 0 ELSE x[1]>>
    ELSE LET h == n \div 2
             Cut(q, r) ==
                 IF q = <<>> THEN [i \in 1..(n - h) |-> 0] \o BGroups(x, h)
                 ELSE IF r = <<>> THEN BGroups(q, n - h) \o [i \in 1..h |-> 0]
                 ELSE BGroups(q, n - h) \o BGroups(r, h)
             Quot(q) == Cut(q, BSub(x, BMulPow10(q, 3 * h)))
         IN  Quot(BDivPow10(x, 3 * h, FALSE).q)

RECURSIVE JoinGroups(_)
JoinGroups(g) ==
    IF Len(g) = 1 THEN Pad3(g[1])
    ELSE JoinGroups(SubSeq(g, 1, Len(g) \div 2)) \o Text(<<",">>) \o
         JoinGroups(SubSeq(g, Len(g) \div 2 + 1, Len(g)))

\* the decimal digits of x in groups of three separated by commas
BThousands(x) ==
    LET Join(g, first) ==
            NatToStr(g[first]) \o
            (IF first = Len(g) THEN <<>>
             ELSE Text(<<",">>) \o JoinGroups(SubSeq(g, first + 1, Len(g))))
        Lead(g) == Join(g, MinOf({i \in 1..Len(g) : g[i] # 0} \cup {Len(g)}))
    IN  Lead(BGroups(x, BitLen(x) \div 9 + 1))

\* the integer nearest to |a|, ties to even
FRoundToInt(a) ==
    IF a.exp >= 0 THEN BShl(a.man, a.exp) ELSE BRoundShr(a.man, 0 - a.exp, FALSE)

FormatThousands(a) ==
    (IF a.neg THEN Text(<<"-">>) ELSE <<>>) \o
    (IF a.kind = "nan" THEN Text(<<"n","a","n">>)
     ELSE IF a.kind = "inf" THEN Text(<<"i","n","f">>)
     ELSE BThousands(FRoundToInt(a)))

(***************************************************************************)
(* Record fields: absent/None, a string, an int, or another JSON value (a   *)
(* number with a fraction or an exponent, true, false, an array, an         *)
(* object).  Of a value that is no string the code uses its truth value and *)
(* its str(); it has no strip and no upper method.                          *)
(***************************************************************************)
FNone == [t |-> "none", s |-> <<>>, n |-> 0]

FStr(s) == [t |-> "str", s |-> s, n |-> 0]

FNum(n) == [t |-> "num", s |-> <<>>, n |-> n]

\* a value with the given truth value and str()
FObj(truthy, text) == [t |-> "obj", s |-> text, n |-> IF truthy THEN 1 ELSE 0]

\* Python truthiness of a field value
Truthy(f) ==
    \/ f.t = "str" /\ f.s # <<>>
    \/ f.t \in {"num", "obj"} /\ f.n # 0

(***************************************************************************)
(* parse_price                                                              *)
(***************************************************************************)
\* the non-empty stripped segments of a cleaned price that contains '-'
PriceParts(cleaned) ==
    LET segs == Split(cleaned, Ord["-"])
        st   == [i \in 1..Len(segs) |-> Strip(segs[i])]
    IN  SelectSeq(st, LAMBDA p : p # <<>>)

\* line 66: strip, then drop '$' and ','
CleanPrice(s) == Remove(Remove(Strip(s), Ord["$"]), Ord[","])

\* lines 67-79: float of the last non-empty segment, or of the whole field
ParseCleaned(cleaned, parts) ==
    IF Contains(cleaned, Ord["-"])
    THEN IF parts = <<>> THEN None
         ELSE ParseFloat(parts[Len(parts)])
    ELSE ParseFloat(cleaned)

\* a truthy price that is no str has no strip method (line 66)
parse_price(f) ==
    IF ~Truthy(f) THEN None
    ELSE IF f.t # "str" THEN Raise("AttributeError")
    ELSE ParseCleaned(CleanPrice(f.s), PriceParts(CleanPrice(f.s)))

(***************************************************************************)
(* offer_amount_usd                                                         *)
(***************************************************************************)
\* str(x)
PyStr(f) ==
    IF f.t \in {"str", "obj"} THEN f.s
    ELSE IF f.n < 0 THEN Text(<<"-">>) \o NatToStr(0 - f.n)
    ELSE NatToStr(f.n)

\* lines 92-95, for the float made of the share count (None: ValueError)
AmountOfShares(price, shares_value) ==
    IF shares_value = None THEN None
    ELSE IF FLeZero(shares_value[1]) THEN None
    ELSE Some(FMul(price, shares_value[1]))

\* lines 85-91, for the result of parse_price
AmountOfPrice(price, shares) ==
    IF IsRaise(price) THEN price
    ELSE IF price = None \/ shares.t = "none" THEN None
    ELSE AmountOfShares(price[1], ParseFloat(Strip(Remove(PyStr(shares), Ord[","]))))

offer_amount_usd(ipo) == AmountOfPrice(parse_price(ipo.price), ipo.numberOfShares)

(***************************************************************************)
(* Program constants                                                        *)
(***************************************************************************)
MIN_OFFER_AMOUNT_USD == 200000000

US_EXCHANGES == {Text(<<"N","A","S","D","A","Q">>), Text(<<"N","Y","S","E">>), Text(<<"A","M","E","X">>)}

RequiredKeys == <<"FINNHUB_API_KEY", "EMAIL_USER", "EMAIL_APP_PASSWORD", "EMAIL_TO">>


\* the membership test without .upper()
IsUsExchange_NoUpper(ipo) ==
    IF ~Truthy(ipo.exchange) THEN Some(FALSE)
    ELSE IF ipo.exchange.t # "str" THEN Raise("AttributeError")
    ELSE Some(ipo.exchange.s \in US_EXCHANGES)

\* (ipo.get("exchange") or "").upper() in US_EXCHANGES; a truthy exchange
\* that is no str has no upper method
IsUsExchange(ipo) ==
    IF ~Truthy(ipo.exchange) THEN Some(FALSE)
    ELSE IF ipo.exchange.t # "str" THEN Raise("AttributeError")
    ELSE Some(Upper(ipo.exchange.s) \in US_EXCHANGES)

(***************************************************************************)
(* analyze_ipos: one iteration of the loop over record i of the list.       *)
(* The list holds the dict objects; qualified holds references to them      *)
(* (their positions), so that the annotation made here is seen through      *)
(* every alias.  exc is the exception that leaves the iteration, if any;    *)
(* the counters incremented before it stay incremented.                     *)
(***************************************************************************)
ZeroStats == [total_ipos |-> 0, us_ipos |-> 0, missing_data |-> 0, qualified |-> 0]

\* the threshold test with > in place of >=
Qualifies_Strict(amt) ==
    FGeInt(amt, MIN_OFFER_AMOUNT_USD) /\ amt # FFromInt(MIN_OFFER_AMOUNT_USD)

\* amt >= MIN_OFFER_AMOUNT_USD
Qualifies(amt) == FGeInt(amt, MIN_OFFER_AMOUNT_USD)

\* stats[k] += 1
Count(st, k) == [st EXCEPT !.stats[k] = @ + 1]

\* lines 114-121, for the amount of a US record
AfterAmount(st, i, amt) ==
    IF IsRaise(amt) THEN [st EXCEPT !.exc = amt]
    ELSE IF amt = None THEN Count(st, "missing_data")
    ELSE IF Qualifies(amt[1])
         THEN [Count(st, "qualified") EXCEPT !.ipos[i].offer_amt = amt,
                                             !.qualified = Append(@, i)]
    ELSE st

\* lines 109-113 without stats["us_ipos"] += 1
AfterExchange_NoUsCount(st, i, us) ==
    IF IsRaise(us) THEN [st EXCEPT !.exc = us]
    ELSE IF us = Some(FALSE) THEN st
    ELSE AfterAmount(st, i, offer_amount_usd(st.ipos[i]))

\* lines 109-113, for the outcome of the exchange test
AfterExchange(st, i, us) ==
    IF IsRaise(us) THEN [st EXCEPT !.exc = us]
    ELSE IF us = Some(FALSE) THEN st
    ELSE AfterAmount(Count(st, "us_ipos"), i, offer_amount_usd(st.ipos[i]))

\* lines 106-108: an element that is no dict has no get method
LoopBody(st, i) ==
    IF ~st.ipos[i].dict
    THEN [Count(st, "total_ipos") EXCEPT !.exc = Raise("AttributeError")]
    ELSE AfterExchange(Count(st, "total_ipos"), i, IsUsExchange(st.ipos[i]))

(***************************************************************************)
(* build_email and the lines of run() that prepare its arguments            *)
(***************************************************************************)
sUNKNOWN == Text(<<"U","N","K","N","O","W","N">>)

sUnknown == Text(<<"U","n","k","n","o","w","n">>)

sNA == Text(<<"N","/","A">>)

\* x or placeholder, as interpolated by an f-string
OrElse(f, placeholder) == IF Truthy(f) THEN PyStr(f) ELSE placeholder

\* f"USD {offer_amt:,.0f}" or "N/A"
OfferStr(offer_amt) ==
    IF offer_amt = None THEN sNA
    ELSE Text(<<"U","S","D"," ">>) \o FormatThousands(offer_amt[1])

ReportLine(ipo) ==
    [symbol   |-> OrElse(ipo.symbol, sUNKNOWN),
     name     |-> OrElse(ipo.name, sUnknown),
     exchange |-> OrElse(ipo.exchange, sUnknown),
     price    |-> OrElse(ipo.price, sNA),
     shares   |-> OrElse(ipo.numberOfShares, sNA),
     offer    |-> OfferStr(ipo.offer_amt)]

SummaryLines(d, st) ==
    [date |-> d, total |-> st.total_ipos, us |-> st.us_ipos,
     missing |-> st.missing_data, qualified |-> st.qualified,
     threshold |-> BThousands(BFromInt(MIN_OFFER_AMOUNT_USD))]

\* recs: the records to render.  text and html carry the same content: the
\* "No U.S. same-day IPOs" sentence or the header, the summary, a line (a
\* table row) per record.
EmailPart(recs, summary, lines) ==
    IF recs = <<>>
    THEN [no_ipos |-> TRUE, header |-> FALSE, summary |-> summary, lines |-> <<>>]
    ELSE [no_ipos |-> FALSE, header |-> TRUE, summary |-> summary, lines |-> lines]

ReportLines(recs) == [i \in 1..Len(recs) |-> ReportLine(recs[i])]

build_email(recs, d, st) ==
    [text |-> EmailPart(recs, SummaryLines(d, st), ReportLines(recs)),
     html |-> EmailPart(recs, SummaryLines(d, st), ReportLines(recs))]

\* run(), lines 260-265: annotate every US record and collect references
AnnotateUs(list) ==
    [i \in 1..Len(list) |->
        IF IsUsExchange(list[i]) = Some(TRUE)
        THEN [list[i] EXCEPT !.offer_amt = offer_amount_usd(list[i])]
        ELSE list[i]]

RECURSIVE UsRefs(_, _)
UsRefs(list, i) ==
    IF i > Len(list) THEN <<>>
    ELSE (IF IsUsExchange(list[i]) = Some(TRUE) THEN <<i>> ELSE <<>>) \o UsRefs(list, i + 1)

Deref(list, refs) == [j \in 1..Len(refs) |-> list[refs[j]]]

\* build_email called with the qualified records
ReportRecords_Qualified(list, us, large) == Deref(list, large)

\* run(), line 267: the records handed to build_email are the US records
ReportRecords(list, us, large) == Deref(list, us)

\* f"IPO Monitor {date_iso} - {len(large_ipos)} qualifying IPO(s)"
Subject(d, large) == [date |-> d, n |-> Len(large)]

(***************************************************************************)
(* require_env                                                              *)
(***************************************************************************)
\* a module-level setting is falsy when the variable is unset or empty
Falsy(v) == v \in {"unset", "empty"}

\* require_env raising at the first missing key
require_env_FirstOnly(e) ==
    LET missing == SelectSeq(RequiredKeys, LAMBDA k : Falsy(e[k]))
    IN  IF missing = <<>> THEN <<>> ELSE <<Head(missing)>>

require_env(e) == SelectSeq(RequiredKeys, LAMBDA k : Falsy(e[k]))


(***************************************************************************)
(* Specification Spec: one invocation of run()                              *)
(***************************************************************************)
Ipo(sym, nm, ex, pr, sh) ==
    [symbol |-> sym, name |-> nm, exchange |-> ex, price |-> pr,
     numberOfShares |-> sh, offer_amt |-> None, dict |-> TRUE]

\* a list element that is no JSON object: a string, a number, null, an
\* array (also the characters of a string and the keys of an object given
\* in place of the list)
NotADict == [Ipo(FNone, FNone, FNone, FNone, FNone) EXCEPT !.dict = FALSE]

\* Elements of the list the data source may return: records whose fields
\* are JSON strings, JSON numbers or null/absent, and an element that is no
\* record.
IpoRecords ==
    { NotADict,
      \* not on a US exchange, although the amount computes to 220,000,000
      Ipo(FStr(Text(<<"L","S","E","X">>)), FStr(Text(<<"L","x">>)), FStr(Text(<<"L","S","E">>)),
          FStr(Text(<<"2","0","-","2","2">>)), FNum(10000000)),
      Ipo(FStr(Text(<<"N","O","X">>)), FNone, FNone,
          FStr(Text(<<"$","2","0">>)), FStr(Text(<<"1","0",",","0","0","0",",","0","0","0">>))),
      \* US, 22 x 10,000,000, the price in Arabic-Indic digits
      Ipo(FStr(Text(<<"B","I","G">>)), FStr(Text(<<"B","i","g">>)), FStr(Text(<<"a","m","e","x">>)),
          FStr(<<1634, 1632, 45, 1634, 1634>>), FNum(10000000)),
      \* US, 20 x 10,000,000: exactly the threshold
      Ipo(FNone, FStr(Text(<<"E","q">>)), FStr(Text(<<"N","Y","S","E">>)),
          FStr(Text(<<"2","2","-","2","0">>)), FStr(Text(<<"\t","1","0",",","0","0","0",",","0","0","0","\n">>))),
      \* US, 20.50 x 1e7, the share count the JSON number 1e7
      Ipo(FStr(Text(<<"D","E","C">>)), FNone, FStr(Text(<<"N","a","s","d","a","q">>)),
          FStr(Text(<<"$","2","0",".","5","0">>)),
          FObj(TRUE, Text(<<"1","0","0","0","0","0","0","0",".","0">>))),
      \* US, 20 x 9,999,999: just below; \x0b is left after '$' is removed
      \* and float() skips it
      Ipo(FStr(Text(<<"L","O","W">>)), FStr(Text(<<"L","o">>)), FStr(Text(<<"N","a","s","d","a","q">>)),
          FStr(<<36, 11, 50, 48>>), FStr(Text(<<"9",",","9","9","9",",","9","9","9">>))),
      \* US, 1.015 x 100 = 101.49999999999999 in binary64
      Ipo(FStr(Text(<<"T","I","N","Y">>)), FNone, FStr(Text(<<"N","Y","S","E">>)),
          FStr(Text(<<"1",".","0","1","5">>)), FNum(100)),
      \* US ("ny\u017fe".upper() is "NYSE"), 1e3 x 1_000_000: exponent and
      \* digit separators
      Ipo(FStr(Text(<<"E","X","P">>)), FNone, FStr(<<110, 121, 383, 101>>),
          FStr(Text(<<"1","e","3">>)), FStr(Text(<<"1","_","0","0","0","_","0","0","0">>))),
      \* US, no computable amount
      Ipo(FStr(Text(<<"N","O","P">>)), FNone, FStr(Text(<<"N","Y","S","E">>)),
          FNone, FNum(10000000)),
      Ipo(FStr(Text(<<"E","M","P">>)), FNone, FStr(Text(<<"a","m","e","x">>)),
          FStr(<<>>), FStr(Text(<<"1","0",",","0","0","0",",","0","0","0">>))),
      Ipo(FStr(Text(<<"A","B","C">>)), FNone, FStr(Text(<<"N","Y","S","E">>)),
          FStr(Text(<<"a","b","c">>)), FStr(Text(<<"1","0",",","0","0","0",",","0","0","0">>))),
      Ipo(FNone, FNone, FStr(Text(<<"N","a","s","d","a","q">>)),
          FStr(Text(<<"2","0","-","2","2">>)), FNone),
      Ipo(FStr(Text(<<"Z","E","R","O">>)), FNone, FStr(Text(<<"N","a","s","d","a","q">>)),
          FStr(Text(<<"2","0","-","2","2">>)), FNum(0)),
      Ipo(FStr(Text(<<"N","E","G">>)), FNone, FStr(Text(<<"N","Y","S","E">>)),
          FStr(Text(<<"2","0","-","2","2">>)), FStr(Text(<<"-","5">>))),
      Ipo(FStr(Text(<<"B","A","D">>)), FNone, FStr(Text(<<"a","m","e","x">>)),
          FStr(Text(<<"2","0","-","2","2">>)), FStr(Text(<<"1","0"," ","m">>))),
      \* \x1c is left after '$' is removed and float() does not skip it
      Ipo(FStr(Text(<<"S","E","P">>)), FNone, FStr(Text(<<"N","Y","S","E">>)),
          FStr(<<36, 28, 50, 48>>), FNum(10000000)),
      \* US, float() accepts "nan" and "inf"
      Ipo(FStr(Text(<<"N","A","N">>)), FNone, FStr(Text(<<"N","Y","S","E">>)),
          FStr(Text(<<"2","0">>)), FStr(Text(<<"n","a","n">>))),
      Ipo(FStr(Text(<<"I","N","F">>)), FNone, FStr(Text(<<"N","a","s","d","a","q">>)),
          FStr(Text(<<"i","n","f">>)), FNum(1)),
      \* a price and an exchange that are JSON numbers
      Ipo(FStr(Text(<<"N","U","M">>)), FNone, FStr(Text(<<"N","Y","S","E">>)),
          FNum(20), FNum(10000000)),
      Ipo(FStr(Text(<<"X","N","U","M">>)), FNone, FNum(5),
          FStr(Text(<<"2","0">>)), FNum(10000000)) }

RECURSIVE SeqsUpTo(_, _)
SeqsUpTo(S, n) ==
    IF n = 0 THEN {<<>>}
    ELSE LET shorter == SeqsUpTo(S, n - 1)
         IN  shorter \cup {Append(q, r) : q \in {x \in shorter : Len(x) = n - 1}, r \in S}

FetchResults == SeqsUpTo(IpoRecords, MaxRecs)

\* data.get("ipoCalendar", []): a list, or a value that cannot be iterated
\* (None when the key is there with the value null, a number, a boolean)
FetchPayloads == {Some(r) : r \in FetchResults} \cup {None}

Dates == 1..MaxDate

Environments == [{RequiredKeys[i] : i \in 1..Len(RequiredKeys)} -> {"unset", "empty", "set"}]

NoSubject == [date |-> 0, n |-> 0]

NoBody == build_email(<<>>, 0, ZeroStats)

RunIdle ==
    /\ pc = "idle" /\ env = <<>> /\ log = <<>> /\ date_iso = 0 /\ ipos = <<>>
    /\ ipos_none = FALSE
    /\ idx = 0 /\ stats = ZeroStats /\ qualified = <<>> /\ us_ipos = <<>>
    /\ body = NoBody /\ subject = NoSubject /\ sent = <<>> /\ console = <<>>
    /\ error = None

SchedIdle ==
    /\ spc = "idle" /\ utc = 0 /\ now = 0 /\ last_run_date = None
    /\ completed = <<>> /\ running = 0 /\ invoked = {}

ParseIdle == ppc = "idle" /\ price_field = FNone /\ parsed = None

Init ==
    /\ pc = "require_env"
    /\ env \in Environments
    /\ log = <<>>
    /\ date_iso = 0
    /\ ipos = <<>>
    /\ ipos_none = FALSE
    /\ idx = 0
    /\ stats = ZeroStats
    /\ qualified = <<>>
    /\ us_ipos = <<>>
    /\ body = NoBody
    /\ subject = NoSubject
    /\ sent = <<>>
    /\ console = <<>>
    /\ error = None
    /\ ParseIdle
    /\ SchedIdle

\* an exception leaves run()
Abort(stage, kind, missing) ==
    /\ pc' = "failed"
    /\ error' = Some([stage |-> stage, kind |-> kind, missing |-> missing])

\* run(), line 252
RequireEnvOk ==
    /\ pc = "require_env"
    /\ require_env(env) = <<>>
    /\ pc' = "resolve_date"
    /\ UNCHANGED <<env, log, date_iso, ipos, ipos_none, idx, stats, qualified,
                   us_ipos, body, subject, sent, console, error, parseVars, schedVars>>

RequireEnvRaise ==
    /\ pc = "require_env"
    /\ require_env(env) # <<>>
    /\ Abort("require_env", "RuntimeError", require_env(env))
    /\ UNCHANGED <<env, log, date_iso, ipos, ipos_none, idx, stats, qualified,
                   us_ipos, body, subject, sent, console, parseVars, schedVars>>

\* run(), line 254: the clock is read once
ResolveDate ==
    /\ pc = "resolve_date"
    /\ \E d \in Dates : date_iso' = d
    /\ log' = Append(log, "resolve-date")
    /\ pc' = "fetch"
    /\ UNCHANGED <<env, ipos, ipos_none, idx, stats, qualified, us_ipos,
                   body, subject, sent, console, error, parseVars, schedVars>>

\* run(), line 256: the response is a JSON object; a missing ipoCalendar
\* key gives the empty list, a null one (a number, a boolean) a value that
\* cannot be iterated
FetchOk ==
    /\ pc = "fetch"
    /\ \E result \in FetchPayloads :
           /\ ipos' = (IF result = None THEN <<>> ELSE result[1])
           /\ ipos_none' = (result = None)
    /\ log' = Append(log, "fetch")
    /\ pc' = "analyze"
    /\ UNCHANGED <<env, date_iso, idx, stats, qualified, us_ipos,
                   body, subject, sent, console, error, parseVars, schedVars>>

\* what fetch_same_day_ipos raises: requests.get, raise_for_status,
\* resp.json(), and data.get when the JSON value is no object
FetchErrors == {"ConnectionError", "HTTPError", "JSONDecodeError", "AttributeError"}

\* the fetch error caught and the run continued with an empty list
FetchRaise_Swallowed ==
    /\ pc = "fetch"
    /\ \E kind \in FetchErrors :
           error' = Some([stage |-> "fetch", kind |-> kind, missing |-> <<>>])
    /\ ipos' = <<>>
    /\ log' = Append(log, "fetch")
    /\ pc' = "analyze"
    /\ UNCHANGED <<env, date_iso, ipos_none, idx, stats, qualified, us_ipos,
                   body, subject, sent, console, parseVars, schedVars>>

FetchRaise ==
    /\ pc = "fetch"
    /\ \E kind \in FetchErrors : Abort("fetch", kind, <<>>)
    /\ log' = Append(log, "fetch")
    /\ UNCHANGED <<env, date_iso, ipos, ipos_none, idx, stats, qualified, us_ipos,
                   body, subject, sent, console, parseVars, schedVars>>

\* analyze_ipos, lines 98-106, on a list
AnalyzeBegin ==
    /\ pc = "analyze"
    /\ ~ipos_none
    /\ stats' = ZeroStats
    /\ qualified' = <<>>
    /\ idx' = 0
    /\ log' = Append(log, "analyze")
    /\ pc' = "analyze_loop"
    /\ UNCHANGED <<env, date_iso, ipos, ipos_none, us_ipos,
                   body, subject, sent, console, error, parseVars, schedVars>>

\* analyze_ipos, lines 98-106, on None (a number, a boolean): the for
\* statement raises
AnalyzeNotIterable ==
    /\ pc = "analyze"
    /\ ipos_none
    /\ stats' = ZeroStats
    /\ qualified' = <<>>
    /\ idx' = 0
    /\ log' = Append(log, "analyze")
    /\ Abort("analyze", "TypeError", <<>>)
    /\ UNCHANGED <<env, date_iso, ipos, ipos_none, us_ipos,
                   body, subject, sent, console, parseVars, schedVars>>

\* the loop body on record idx + 1
Iteration ==
    LoopBody([ipos |-> ipos, qualified |-> qualified, stats |-> stats, exc |-> None],
             idx + 1)

IterCompletes(st) ==
    /\ st.exc = None
    /\ ipos' = st.ipos
    /\ qualified' = st.qualified
    /\ stats' = st.stats

IterRaises(st) ==
    /\ st.exc # None
    /\ stats' = st.stats
    /\ Abort("analyze", st.exc[2], <<>>)

\* analyze_ipos, lines 106-121: one iteration
AnalyzeIter ==
    /\ pc = "analyze_loop"
    /\ idx < Len(ipos)
    /\ IterCompletes(Iteration)
    /\ idx' = idx + 1
    /\ UNCHANGED <<pc, env, log, date_iso, ipos_none, us_ipos,
                   body, subject, sent, console, error, parseVars, schedVars>>

\* analyze_ipos, lines 106-113: the iteration raises and the exception
\* leaves analyze_ipos and run()
AnalyzeRaise ==
    /\ pc = "analyze_loop"
    /\ idx < Len(ipos)
    /\ IterRaises(Iteration)
    /\ UNCHANGED <<env, log, date_iso, ipos, ipos_none, idx, qualified, us_ipos,
                   body, subject, sent, console, parseVars, schedVars>>

\* analyze_ipos, line 123
AnalyzeReturn ==
    /\ pc = "analyze_loop"
    /\ idx = Len(ipos)
    /\ pc' = "render"
    /\ UNCHANGED <<env, log, date_iso, ipos, ipos_none, idx, stats, qualified,
                   us_ipos, body, subject, sent, console, error, parseVars, schedVars>>

\* run(), lines 259-268
Render ==
    /\ pc = "render"
    /\ ipos' = AnnotateUs(ipos)
    /\ us_ipos' = UsRefs(ipos, 1)
    /\ body' = build_email(ReportRecords(ipos', us_ipos', qualified), date_iso, stats)
    /\ subject' = Subject(date_iso, qualified)
    /\ log' = Append(log, "render")
    /\ pc' = "notify"
    /\ UNCHANGED <<env, date_iso, ipos_none, idx, stats, qualified,
                   sent, console, error, parseVars, schedVars>>

\* run(), line 270
SendEmailOk ==
    /\ pc = "notify"
    /\ sent' = Append(sent, [subject |-> subject, body |-> body])
    /\ log' = Append(log, "notify")
    /\ pc' = "print"
    /\ UNCHANGED <<env, date_iso, ipos, ipos_none, idx, stats, qualified, us_ipos,
                   body, subject, console, error, parseVars, schedVars>>

\* connecting, starttls, login or sendmail raises
SendEmailRaise ==
    /\ pc = "notify"
    /\ \E kind \in {"OSError", "SMTPAuthenticationError", "SMTPRecipientsRefused"} :
           Abort("notify", kind, <<>>)
    /\ log' = Append(log, "notify")
    /\ UNCHANGED <<env, date_iso, ipos, ipos_none, idx, stats, qualified, us_ipos,
                   body, subject, sent, console, parseVars, schedVars>>

\* run(), lines 271-273
PrintSummary ==
    /\ pc = "print"
    /\ console' = <<[kind |-> "subject", subject |-> subject, text |-> <<>>]>> \o
                  [j \in 1..Len(qualified) |->
                      [kind |-> "symbol", subject |-> NoSubject,
                       text |-> OrElse(ipos[qualified[j]].symbol, sUNKNOWN)]]
    /\ log' = Append(log, "console-log")
    /\ pc' = "done"
    /\ UNCHANGED <<env, date_iso, ipos, ipos_none, idx, stats, qualified, us_ipos,
                   body, subject, sent, error, parseVars, schedVars>>

Next ==
    \/ RequireEnvOk
    \/ RequireEnvRaise
    \/ ResolveDate
    \/ FetchOk
    \/ FetchRaise
    \/ AnalyzeBegin
    \/ AnalyzeNotIterable
    \/ AnalyzeIter
    \/ AnalyzeRaise
    \/ AnalyzeReturn
    \/ Render
    \/ SendEmailOk
    \/ SendEmailRaise
    \/ PrintSummary

Spec == Init /\ [][Next]_vars

(***************************************************************************)
(* Properties of run() and analyze_ipos                                     *)
(***************************************************************************)
\* the classes of the records, stated on the fields
UsExchangeTable ==
    [e \in {r.exchange : r \in IpoRecords} |->
        /\ e.t = "str"
        /\ Upper(e.s) \in {Text(<<"N","A","S","D","A","Q">>), Text(<<"N","Y","S","E">>),
                           Text(<<"A","M","E","X">>)}]

OnUsExchange(ipo) == ipo.dict /\ UsExchangeTable[ipo.exchange]

\* offer_amount_usd on every (price, numberOfShares) pair of the inputs
AmountTable ==
    [k \in {<<r.price, r.numberOfShares>> : r \in IpoRecords} |->
        offer_amount_usd([price |-> k[1], numberOfShares |-> k[2]])]

Amount(ipo) == AmountTable[<<ipo.price, ipo.numberOfShares>>]

HasAmount(ipo) == IsValue(Amount(ipo))

AtLeastThreshold(a) == FGeInt(a, 200000000)

\* not at or above the threshold
BelowThreshold(a) == ~AtLeastThreshold(a)

ExactlyThreshold(ipo) == Amount(ipo) = Some(FFromInt(200000000))

NonUsIdx(n) == {i \in 1..n : ~OnUsExchange(ipos[i])}

MissingIdx(n) == {i \in 1..n : OnUsExchange(ipos[i]) /\ Amount(ipos[i]) = None}

QualifiedIdx(n) ==
    {i \in 1..n : /\ OnUsExchange(ipos[i])
                  /\ HasAmount(ipos[i])
                  /\ AtLeastThreshold(Amount(ipos[i])[1])}

BelowIdx(n) ==
    {i \in 1..n : /\ OnUsExchange(ipos[i])
                  /\ HasAmount(ipos[i])
                  /\ BelowThreshold(Amount(ipos[i])[1])}

RECURSIVE Ascending(_, _)
Ascending(S, i) ==
    IF i = 0 THEN <<>>
    ELSE Ascending(S, i - 1) \o (IF i \in S THEN <<i>> ELSE <<>>)

Failed(stage) == pc = "failed" /\ error # None /\ error[1].stage = stage

Raised(stage) == error # None /\ error[1].stage = stage

InAnalysis == pc = "analyze_loop"

Analyzed == pc \in {"render", "notify", "print", "done"} \/ Failed("notify")

\* an iteration of the loop raised: record idx + 1 was being processed
RaisedInLoop == Failed("analyze") /\ ~ipos_none

\* C1: after every iteration of the loop of analyze_ipos, and in the stats
\* it returns, qualified <= us_ipos <= total_ipos and missing_data <= us_ipos,
\* all counters are non-negative and total_ipos is the number of records
\* processed so far (the record on which an iteration raises included).
C1_CounterOrder ==
    (InAnalysis \/ Analyzed \/ RaisedInLoop) =>
        /\ 0 <= stats.qualified /\ 0 <= stats.missing_data
        /\ stats.qualified <= stats.us_ipos
        /\ stats.us_ipos <= stats.total_ipos
        /\ stats.missing_data <= stats.us_ipos
        /\ stats.total_ipos = (IF RaisedInLoop THEN idx + 1 ELSE idx)
        /\ (Analyzed => stats.total_ipos = Len(ipos))

C1_Witness ==
    /\ InAnalysis
    /\ idx = 2
    /\ stats.missing_data = 1
    /\ stats.qualified = 1

\* C2: the qualified sequence is exactly the records, in source order, whose
\* upper-cased exchange is NASDAQ, NYSE or AMEX and whose offer amount is
\* present and >= 200,000,000 (inclusive: an amount of exactly 200,000,000 is
\* a member), each annotated with that amount; stats['qualified'] is its
\* length.
C2_QualifiedIsFilter ==
    (InAnalysis \/ Analyzed) =>
        /\ qualified = Ascending(QualifiedIdx(idx), idx)
        /\ stats.qualified = Len(qualified)
        /\ \A i \in 1..idx :
              (OnUsExchange(ipos[i]) /\ ExactlyThreshold(ipos[i]))
                  => \E j \in 1..Len(qualified) : qualified[j] = i
        /\ \A j \in 1..Len(qualified) :
              ipos[qualified[j]].offer_amt = Amount(ipos[qualified[j]])

C2_Witness ==
    /\ pc = "render"
    /\ Len(qualified) = 1
    /\ ExactlyThreshold(ipos[qualified[1]])
    /\ \E i \in 1..Len(ipos) : i \in BelowIdx(Len(ipos))

StageOrder ==
    <<"resolve-date", "fetch", "analyze", "render", "notify", "console-log">>

\* C4: the stages of run() happen in the order resolve-date, fetch, analyze,
\* render, notify, console-log, each at most once; a stage that fails is the
\* last one executed; after a failed fetch or analysis no email is sent,
\* after a failed notify nothing is printed and the error is left for the
\* caller.
C4_StagesInOrder ==
    /\ Len(log) <= Len(StageOrder)
    /\ log = SubSeq(StageOrder, 1, Len(log))
    /\ Len(sent) <= 1
    /\ (sent # <<>> => \E i \in 1..Len(log) : log[i] = "notify")
    /\ (Raised("fetch") => pc = "failed" /\ sent = <<>> /\ console = <<>>
                             /\ log[Len(log)] = "fetch")
    /\ (Raised("analyze") => pc = "failed" /\ sent = <<>> /\ console = <<>>
                               /\ log[Len(log)] = "analyze")
    /\ (Raised("notify") => pc = "failed" /\ sent = <<>> /\ console = <<>>
                              /\ log[Len(log)] = "notify")
    /\ (pc = "done" => log = StageOrder /\ Len(sent) = 1 /\ error = None)
    /\ (pc = "failed" => error # None)

C4_Witness == Failed("fetch") /\ log = <<"resolve-date", "fetch">>

\* the records C7 is about: on a US exchange, the price a string or absent
\* (the share count may be a string, a number or absent)
StringPriced(ipo) == OnUsExchange(ipo) /\ ipo.price.t \in {"none", "str"}

\* a text without a decimal digit denotes no number
NoDigit(s) == \A i \in 1..Len(s) : ~IsDigit(s[i])

\* the characters a decimal numeral is written with besides the digits,
\* and blanks
NumeralChars ==
    {Ord["+"], Ord["-"], Ord["."], Ord["e"], Ord["E"], Ord["_"]} \cup Whitespace

\* a text with a character no numeral contains
HasForeignChar(s, also) ==
    \E i \in 1..Len(s) : ~IsDigit(s[i]) /\ s[i] \notin NumeralChars \cup also

\* [-] digits of value <= 0: a minus sign, or zeros only
PlainNonPositive(s) ==
    /\ s # <<>>
    /\ \A i \in 2..Len(s) : IsDigit(s[i])
    /\ \/ s[1] = Ord["-"] /\ Len(s) > 1
       \/ \A i \in 1..Len(s) : IsDigit(s[i]) /\ DigitVal(s[i]) = 0

\* a price that gives no number: absent, empty, without a digit, or (no
\* range) with a character that is neither part of a numeral nor '$' or ','
PriceUnusable(f) ==
    \/ f.t = "none"
    \/ f.t = "str" /\ NoDigit(f.s)
    \/ f.t = "str" /\ (\A i \in 1..Len(f.s) : f.s[i] # Ord["-"])
                   /\ HasForeignChar(f.s, {Ord["$"], Ord[","]})

\* a share count that gives no positive number: absent, a number <= 0, a
\* text without a digit or with a character no numeral contains, or a plain
\* numeral of value <= 0
SharesUnusable(f) ==
    \/ f.t = "none"
    \/ f.t = "num" /\ f.n <= 0
    \/ f.t = "str" /\ (NoDigit(f.s) \/ HasForeignChar(f.s, {Ord[","]}) \/ PlainNonPositive(f.s))

NoAmountPossible(ipo) ==
    StringPriced(ipo) /\ (PriceUnusable(ipo.price) \/ SharesUnusable(ipo.numberOfShares))

\* C7: on a US record whose price is a string or absent, nothing is raised;
\* when the price or the share count cannot be turned into an offer amount
\* (price absent, empty or no number; share count absent, no number or
\* <= 0), offer_amount_usd returns None, the record is counted in
\* missing_data and is not in the qualified sequence, and the list is
\* processed to the end.
C7_ParseFailureRecoverable ==
    /\ (InAnalysis \/ Analyzed) =>
        /\ \A i \in 1..idx :
              NoAmountPossible(ipos[i]) =>
                  /\ Amount(ipos[i]) = None
                  /\ \A j \in 1..Len(qualified) : qualified[j] # i
        /\ stats.missing_data >=
              Cardinality({i \in 1..idx : NoAmountPossible(ipos[i])})
        /\ (Analyzed => idx = Len(ipos) /\ stats.total_ipos = Len(ipos))
    /\ RaisedInLoop => ~StringPriced(ipos[idx + 1])

MissingKeys == {k \in DOMAIN env : env[k] \in {"unset", "empty"}}

\* C8: when any required key is unset or empty, run() fails in require_env
\* before the date is resolved, anything is fetched or sent, and the error
\* names every missing key; when none is missing require_env raises nothing.
C8_EnvValidatedFirst ==
    /\ (MissingKeys # {} =>
            /\ pc \in {"require_env", "failed"}
            /\ log = <<>> /\ date_iso = 0 /\ ipos = <<>> /\ sent = <<>>)
    /\ (Raised("require_env") =>
            /\ pc = "failed"
            /\ {error[1].missing[i] : i \in 1..Len(error[1].missing)} = MissingKeys
            /\ MissingKeys # {})
    /\ (MissingKeys = {} => ~Raised("require_env"))

C8_Witness ==
    /\ Failed("require_env")
    /\ error[1].missing = <<"EMAIL_USER", "EMAIL_TO">>

UsInput == Ascending({i \in 1..Len(ipos) : OnUsExchange(ipos[i])}, Len(ipos))

Rendered == pc \in {"notify", "print", "done"} \/ Failed("notify")

\* C10: the report body has one line per US-exchange input record, in source
\* order (stats us_ipos of them), each with the offer amount recomputed in
\* run() or N/A; the "No U.S. same-day IPOs" sentence is there iff the input
\* has no US record; the number in the subject and the number of console
\* symbol lines are stats qualified.  A run with US records none of which
\* qualifies sends subject "0 qualifying IPO(s)" with a body listing records.
C10_BodyListsUsRecords ==
    /\ Rendered =>
        /\ Len(body.text.lines) = Len(UsInput)
        /\ Len(body.text.lines) = stats.us_ipos
        /\ body.html.lines = body.text.lines
        /\ \A j \in 1..Len(UsInput) :
              LET ipo == ipos[UsInput[j]]
                  ln  == body.text.lines[j]
              IN  /\ ln.symbol = OrElse(ipo.symbol, sUNKNOWN)
                  /\ ln.price = OrElse(ipo.price, sNA)
                  /\ ln.shares = OrElse(ipo.numberOfShares, sNA)
                  /\ ln.offer = OfferStr(Amount(ipo))
        /\ body.text.no_ipos = (UsInput = <<>>)
        /\ body.html.no_ipos = (UsInput = <<>>)
        /\ subject.n = stats.qualified
        /\ subject.date = date_iso
    /\ pc = "done" =>
        /\ Len(console) = 1 + stats.qualified
        /\ console[1].subject = subject
    /\ \A k \in 1..Len(sent) :
          /\ sent[k].subject = subject /\ sent[k].body = body
          /\ (stats.us_ipos > 0 /\ stats.qualified = 0) =>
                /\ sent[k].subject.n = 0
                /\ sent[k].body.text.lines # <<>>
                /\ ~sent[k].body.text.no_ipos

C10_Witness ==
    /\ pc = "done"
    /\ stats.us_ipos = 2
    /\ stats.qualified = 0
    /\ sent # <<>>
    /\ sent[1].subject.n = 0
    /\ Len(sent[1].body.text.lines) = 2
    /\ sent[1].body.text.lines[1].offer = sNA
    /\ sent[1].body.text.lines[2].offer = Text(<<"U","S","D"," ","1","0","1">>)

(***************************************************************************)
(* run_scheduler.py.  Time is in seconds; utc is the wall clock, read by    *)
(* now_dubai().  SpecSched is the script run against src/ipo_monitor.py;    *)
(* SpecLoop is the script run against an ipo_monitor that provides          *)
(* run_once.                                                                *)
(***************************************************************************)
TARGET_HOUR == 9

TARGET_MINUTE == 0

DubaiOffsetHours == 4

SleepSeconds == 60

DUBAI_TZ == DubaiOffsetHours * 3600

now_dubai(t) == t + DUBAI_TZ

HourOf(t) == (t \div 3600) % 24

MinuteOf(t) == (t \div 60) % 60

DateOf(t) == t \div 86400

\* the loop condition without the last_run_date test
ShouldRun_NoDedupe(t, last) ==
    HourOf(t) = TARGET_HOUR /\ MinuteOf(t) = TARGET_MINUTE

\* lines 38-39: the two conditions under which the loop calls job()
ShouldRun(t, last) ==
    /\ HourOf(t) = TARGET_HOUR /\ MinuteOf(t) = TARGET_MINUTE
    /\ last # Some(DateOf(t))

\* the names src/ipo_monitor.py binds at module level
IpoMonitorNames ==
    {"os", "ssl", "smtplib", "datetime", "timedelta", "timezone",
     "MIMEMultipart", "MIMEText", "ZoneInfo", "ZoneInfoNotFoundError",
     "requests", "load_dotenv",
     "FINNHUB_API_KEY", "FINNHUB_IPO_URL", "SMTP_HOST", "SMTP_PORT",
     "EMAIL_USER", "EMAIL_APP_PASSWORD", "EMAIL_TO",
     "MIN_OFFER_AMOUNT_USD", "US_EXCHANGES", "DUBAI_TZ",
     "today_dubai_iso", "fetch_same_day_ipos", "parse_price",
     "offer_amount_usd", "analyze_ipos", "send_email", "build_email",
     "require_env", "run"}

\* line 9: from ipo_monitor import run_once
ImportedName == "run_once"

\* an ipo_monitor that also binds run_once: one pipeline execution, which
\* returns or raises
ProvidedNames == IpoMonitorNames \cup {"run_once"}

RunOnceOutcomes == {"returned", "raised"}

\* Wall-clock seconds between two readings of the clock around
\* time.sleep(60): the sleep lasts at least 60 s, the loop and a late wake-up
\* add to it, and a backward correction of the clock takes from it.
SleepAdvance == (SleepSeconds - MaxBackStep)..(SleepSeconds + MaxOverhead)

\* the scheduler is started shortly before 09:00 Dubai time of day 0
StartTimes ==
    {TARGET_HOUR * 3600 - DUBAI_TZ - 2 * SleepSeconds + k : k \in 0..MaxStartOffset}

\* the clock is followed until shortly after the 09:00 minute of day MaxDay
Horizon == MaxDay * 86400 + TARGET_HOUR * 3600 - DUBAI_TZ + 2 * SleepSeconds

\* the script is started: line 9 is about to run
InitSched ==
    /\ spc = "import"
    /\ utc \in StartTimes
    /\ now = 0
    /\ last_run_date = None
    /\ completed = [d \in 0..MaxDay |-> 0]
    /\ running = 0
    /\ invoked = {}
    /\ ParseIdle
    /\ RunIdle

\* line 9 against src/ipo_monitor.py: the name is not bound, ImportError
\* ends the script before the loop
ImportRaises ==
    /\ spc = "import"
    /\ ImportedName \notin IpoMonitorNames
    /\ spc' = "import_error"
    /\ UNCHANGED <<utc, now, last_run_date, completed, running, invoked,
                   parseVars, runVars>>

\* the wall clock goes on after the script has ended
ClockTick ==
    /\ spc = "import_error"
    /\ utc < Horizon
    /\ utc' = utc + SleepSeconds
    /\ UNCHANGED <<spc, now, last_run_date, completed, running, invoked,
                   parseVars, runVars>>

NextSched ==
    \/ ImportRaises
    \/ ClockTick

SpecSched == InitSched /\ [][NextSched]_vars

\* line 9 against an ipo_monitor that provides run_once; lines 33-35
ImportOk ==
    /\ spc = "import"
    /\ ImportedName \in ProvidedNames
    /\ spc' = "loop"
    /\ UNCHANGED <<utc, now, last_run_date, completed, running, invoked,
                   parseVars, runVars>>

\* lines 37-39 and 42: the condition is false, sleep
CheckAndSleep ==
    /\ spc = "loop"
    /\ utc < Horizon
    /\ now' = now_dubai(utc)
    /\ ~ShouldRun(now_dubai(utc), last_run_date)
    /\ \E adv \in SleepAdvance : utc' = utc + adv
    /\ UNCHANGED <<spc, last_run_date, completed, running, invoked, parseVars, runVars>>

\* lines 37-40: the condition is true, job() is called
CheckAndStartJob ==
    /\ spc = "loop"
    /\ utc < Horizon
    /\ now' = now_dubai(utc)
    /\ ShouldRun(now_dubai(utc), last_run_date)
    /\ running' = running + 1
    /\ invoked' = invoked \cup {DateOf(now_dubai(utc))}
    /\ spc' = "job"
    /\ UNCHANGED <<utc, last_run_date, completed, parseVars, runVars>>

\* job() returns after run_once() took dur seconds; lines 41-42
JobReturns ==
    /\ spc = "job"
    /\ "returned" \in RunOnceOutcomes
    /\ running' = running - 1
    /\ completed' = [completed EXCEPT ![DateOf(now)] = @ + 1]
    /\ last_run_date' = Some(DateOf(now))
    /\ \E dur \in 0..MaxJobSecs, adv \in SleepAdvance : utc' = utc + dur + adv
    /\ spc' = "loop"
    /\ UNCHANGED <<now, invoked, parseVars, runVars>>

\* run_once() raises: job() prints and re-raises (lines 27-29), nothing in
\* the loop catches it and the process ends
JobRaises ==
    /\ spc = "job"
    /\ "raised" \in RunOnceOutcomes
    /\ running' = running - 1
    /\ \E dur \in 0..MaxJobSecs : utc' = utc + dur
    /\ spc' = "crashed"
    /\ UNCHANGED <<now, last_run_date, completed, invoked, parseVars, runVars>>

NextLoop ==
    \/ ImportOk
    \/ CheckAndSleep
    \/ CheckAndStartJob
    \/ JobReturns
    \/ JobRaises

SpecLoop == InitSched /\ [][NextLoop]_vars

InTargetMinute(t) == HourOf(t) = 9 /\ MinuteOf(t) = 0

\* C5: the loop never has two pipeline executions running, and never calls
\* job() on a Dubai date for which a run has completed: every date has at
\* most one completed job() call.
C5_AtMostOnePerDate ==
    /\ running <= 1
    /\ \A d \in DOMAIN completed : completed[d] <= 1
    /\ (spc = "job" => completed[DateOf(now)] = 0)

\* a wake-up falls in the 09:00 minute of a date whose run has completed
C5_Witness ==
    /\ spc = "loop"
    /\ InTargetMinute(now_dubai(utc))
    /\ DateOf(now_dubai(utc)) \in DOMAIN completed
    /\ completed[DateOf(now_dubai(utc))] = 1

\* the first second after the 09:00 minute of Dubai day d, on the utc clock
AfterTargetMinute(d) == d * 86400 + 9 * 3600 + 60 - 4 * 3600

\* C6: job() is invoked on every Dubai day in the 09:00 minute: the scheduler
\* is started before 09:00 of day 0, and once the 09:00 minute of a day is
\* over, job() has been invoked on that day.
C6_RunsEveryDay ==
    \A d \in 0..MaxDay : utc >= AfterTargetMinute(d) => d \in invoked

(***************************************************************************)
(* Specification SpecParse: parse_price applied to every short price string *)
(* of an alphabet, and to some longer ones                                  *)
(***************************************************************************)
PriceAlphabet ==
    {Ord["1"], Ord["2"], Ord["-"], Ord["$"], Ord[","], Ord[" "], Ord["a"], Ord["n"], Ord["e"]}

RECURSIVE StringsUpTo(_, _)
StringsUpTo(A, n) ==
    IF n = 0 THEN {<<>>}
    ELSE LET shorter == StringsUpTo(A, n - 1)
         IN  shorter \cup {Append(s, c) : s \in {x \in shorter : Len(x) = n - 1}, c \in A}

LongerPrices ==
    { Text(<<"2","0","-","2","2">>), Text(<<"2","2","-","2","0">>),
      Text(<<"$","2","0",".","5","0">>), Text(<<"\t","2","0","\n">>),
      Text(<<"1","-","\t">>), Text(<<"-","\t","-">>), Text(<<"1","-","2","e","1">>),
      Text(<<"1","_","0">>), Text(<<"_","1">>), Text(<<"1","_","_","0">>),
      Text(<<"i","n","f">>), Text(<<"I","n","f","i","n","i","t","y">>),
      Text(<<"1","-","i","n","f">>), Text(<<"N","a","N">>),
      Text(<<".","5">>), Text(<<"5",".">>), Text(<<".">>), Text(<<"1",".","5","E","+","2">>),
      Text(<<"1","e","3","0","8">>), Text(<<"1","e","3","0","9">>), Text(<<"1","e","-","4","0","0">>),
      Text(<<"1",".","0","1","5">>), Text(<<"+","2">>), Text(<<"$","1",",","0","0","0",".","5">>),
      Text(<<"1","e","9","9","9","9","9","9">>), Text(<<"0","e","1","2","3","4","5","6","7","8","9","0">>),
      Text(<<"1","e","-","1","2","3","4","5","6","7","8","9","0">>),
      \* blanks: \x0b, \x1c, \x1f, \x85, \xa0, U+2003
      <<11, 50, 48, 31>>, <<36, 11, 50, 48>>, <<36, 28, 50, 48>>,
      <<133, 50, 160>>, <<49, 45, 8195, 50, 8195>>, <<50, 8195, 48>>,
      \* digits beyond ASCII: Arabic-Indic, fullwidth
      <<1634, 1632>>, <<1634, 1632, 45, 1634, 1634>>, <<49, 101, 1635>>,
      <<65298, 65296>>, <<49, 95, 1635>>, <<1633, 46, 1637>> }

PriceInputs ==
    {FNone, FNum(0), FNum(20),
     FObj(TRUE, Text(<<"2","0",".","5">>)), FObj(FALSE, Text(<<"0",".","0">>)),
     FObj(FALSE, Text(<<"[","]">>)), FObj(TRUE, Text(<<"T","r","u","e">>))} \cup
    {FStr(s) : s \in StringsUpTo(PriceAlphabet, MaxLen) \cup LongerPrices}

InitParse ==
    /\ ppc = "call"
    /\ price_field \in PriceInputs
    /\ parsed = None
    /\ RunIdle
    /\ SchedIdle

CallParsePrice ==
    /\ ppc = "call"
    /\ parsed' = parse_price(price_field)
    /\ ppc' = "returned"
    /\ UNCHANGED <<price_field, runVars, schedVars>>

NextParse == CallParsePrice

SpecParse == InitParse /\ [][NextParse]_vars

(***************************************************************************)
(* C9                                                                       *)
(***************************************************************************)
\* a <= b, for floats that are no NaN and not negative
FLe(a, b) ==
    IF b.kind = "inf" THEN TRUE
    ELSE IF a.kind = "inf" THEN FALSE
    ELSE IF a.man = <<>> THEN TRUE
    ELSE IF b.man = <<>> THEN FALSE
    ELSE LET la == BitLen(a.man) + a.exp
             lb == BitLen(b.man) + b.exp
             e  == IF a.exp < b.exp THEN a.exp ELSE b.exp
         IN  IF la # lb THEN la < lb
             ELSE BCmp(BShl(a.man, a.exp - e), BShl(b.man, b.exp - e)) <= 0

\* the segments of the cleaned range that are numbers
NumericSegments(f) ==
    LET cleaned == CleanPrice(f.s)
        parts   == PriceParts(cleaned)
    IN  {ParseFloat(parts[i])[1] :
            i \in {j \in 1..Len(parts) : /\ ParseFloat(parts[j]) # None
                                         /\ ParseFloat(parts[j])[1].kind # "nan"}}

IsRange(f) ==
    f.t = "str" /\ Contains(CleanPrice(f.s), Ord["-"])

\* C9: for a price that encodes a range, parse_price returns the maximum of
\* the numeric segments, and None only when no numeric segment remains.
C9_RangeGivesMax ==
    (ppc = "returned" /\ IsRange(price_field)) =>
        LET segs == NumericSegments(price_field)
        IN  IF segs = {} THEN parsed = None
            ELSE /\ IsValue(parsed)
                 /\ parsed[1] \in segs
                 /\ \A v \in segs : FLe(v, parsed[1])

====
